---- MODULE Spec2Model ----
(***************************************************************************)
(* The YouTube revenue predictor (src/YT_Performance_Model.py): a          *)
(* Streamlit script that is executed top to bottom once at session start   *)
(* and once more after every widget change or button press.  One render    *)
(* pass is modelled as the steps Load, RenderForm, BuildVector, Button and *)
(* Predict; the user (EditWidget, PressButton) and the file system         *)
(* (RemoveArtifact, CorruptArtifact) act between passes.                   *)
(*                                                                         *)
(* Numbers are modelled by their numeric value (integers).  A prediction   *)
(* is counted in eighths of a dollar, which binary floating point holds    *)
(* exactly, so that the "%.2f" rounding of the result is exact.            *)
(***************************************************************************)
EXTENDS Integers, Sequences, FiniteSets, TLC

VARIABLES
    fileState,      \* disk: artifact file -> "ok" | "absent" | "unreadable" (by what joblib.load does)
    diskModel,      \* disk: content of youtube_revenue_model.joblib
    diskFeatures,   \* disk: content of model_features.joblib
    diskMeans,      \* disk: content of feature_means.joblib
    pc,             \* position of the script in the current render pass
    trigger,        \* what started the current pass: "start" | "widget" | "button"
    loaded,         \* the artifact names bound by the try block in this pass
    model,          \* script global `model`
    model_features, \* script global `model_features`
    feature_means,  \* script global `feature_means`
    user_inputs,    \* script global `user_inputs` (feature name -> value)
    input_df,       \* script global `input_df`: sequence of [col, val]
    messages,       \* what the script has displayed in this pass
    exc,            \* the uncaught exception that ended the pass, or ""
    predictCalls,   \* calls of model.predict in this pass
    widgets,        \* the session's widget state (feature name -> value)
    loads,          \* passes of this session that read the artifacts from disk
    edits,          \* widget changes so far
    presses,        \* button presses so far
    diskEvents      \* file-system events so far

vars == << fileState, diskModel, diskFeatures, diskMeans, pc, trigger, loaded,
           model, model_features, feature_means, user_inputs, input_df,
           messages, exc, predictCalls, widgets, loads, edits, presses,
           diskEvents >>

disk == << fileState, diskModel, diskFeatures, diskMeans >>
globals == << model, model_features, feature_means >>

----------------------------------------------------------------------------
(* Bounds of the model. *)

MaxFeatures == 2      \* longest model feature list drawn in Init
MaxEdits == 1         \* widget changes per session
MaxPresses == 1       \* button presses per session
MaxDiskEvents == 1    \* file removals / corruptions per session

----------------------------------------------------------------------------
(* Program constants. *)

MinValue == 0         \* min_value=0.0 of every number_input
MaxPercent == 100     \* max_value=100.0 of the two percentage inputs

ModelFile == "youtube_revenue_model.joblib"
FeaturesFile == "model_features.joblib"
MeansFile == "feature_means.joblib"

\* The three joblib.load calls, in the order the try block makes them.
ArtifactFiles == << ModelFile, FeaturesFile, MeansFile >>

\* The keys of user_inputs, in the order the script assigns them.
DisplayedFeatures ==
    << "Views", "Watch Time (hours)", "Subscribers", "Video Duration",
       "Likes", "New Comments", "Shares", "Impressions",
       "Video Thumbnail CTR (%)", "Average View Percentage (%)",
       "Average View Duration" >>

\* The inputs that are given max_value=100.0.
PercentFeatures == { "Video Thumbnail CTR (%)", "Average View Percentage (%)" }

Range(s) == { s[i] : i \in 1..Len(s) }

DisplayedSet == Range(DisplayedFeatures)

EmptyMap == [x \in {} |-> 0]

----------------------------------------------------------------------------
(* The inputs of a session: what the three artifact files hold. *)

\* A feature the model was trained on that the form does not display.
HiddenFeature == "Estimated AdSense Revenue Share"

\* The names that the drawn feature lists and means mappings range over: an
\* unbounded displayed input, a percentage input and a hidden feature.
FeatureUniverse == { "Views", "Video Thumbnail CTR (%)", HiddenFeature }

\* The historical means drawn: below every minimum, inside every range,
\* above the percentage maximum.
MeanVals == { -5, 50, 150 }

\* What the user may type into an input (the same three cases, other values).
TypedVals == { -1, 70, 200 }

\* The inputs the user edits: of each kind (unbounded, percentage) one that the
\* drawn feature lists can name and one that they never name.
EditedFeatures ==
    { "Views", "Likes", "Video Thumbnail CTR (%)", "Average View Percentage (%)" }

RECURSIVE SeqsNoDup(_, _)
\* The sequences of at most n elements of S that repeat no element.
SeqsNoDup(S, n) ==
    IF n = 0 THEN { << >> }
    ELSE LET shorter == SeqsNoDup(S, n - 1)
         IN  shorter \cup
             UNION { { Append(s, x) : x \in S \ Range(s) } : s \in shorter }

\* What model_features.joblib may hold: a list of distinct column names.
FeatureLists == SeqsNoDup(FeatureUniverse, MaxFeatures)

\* What feature_means.joblib may hold.
MeansMappings == UNION { [D -> MeanVals] : D \in SUBSET FeatureUniverse }

\* A fitted regression model, reduced to what predict does with a row: it
\* raises an error, or returns intercept + slope * (sum of the row), counted
\* in eighths of a dollar.
Models ==
    { [raises |-> FALSE, intercept |-> 3, slope |-> 1, text |-> ""],
      [raises |-> TRUE, intercept |-> 0, slope |-> 0,
       text |-> "X has 2 features, but the model is expecting 3"] }

NoModel == [raises |-> FALSE, intercept |-> 0, slope |-> 0, text |-> "unbound"]

----------------------------------------------------------------------------
(* Artifact loading: lines 15-22. *)

RECURSIVE FirstFailure(_, _)
\* joblib.load is called on the three files in order; the first file that is
\* not "ok" ends the try block.  0 when every load returns.
FirstFailure(fs, i) ==
    IF i > Len(ArtifactFiles) THEN 0
    ELSE IF fs[ArtifactFiles[i]] # "ok" THEN i
    ELSE FirstFailure(fs, i + 1)

\* The names assigned before the try block ends.
LoadedBefore(k) ==
    IF k = 0 THEN Range(ArtifactFiles)
    ELSE { ArtifactFiles[i] : i \in 1..(k - 1) }

\* What joblib.load does with a file decides its state.  "ok": it returns the
\* stored object.  "absent": it raises FileNotFoundError (no such file, or a
\* link whose target is missing).  "unreadable": it raises anything else; the
\* class of that exception depends on the bytes and on the libraries installed
\* (EOFError, OSError and its subclasses, KeyError, IndexError, ValueError,
\* AttributeError, ModuleNotFoundError, UnpicklingError, struct.error, ...),
\* and the script treats all of them alike: its one except clause matches
\* none.  exc records that class of exceptions, not one name in it.
OtherLoadError == "joblib.load: an exception other than FileNotFoundError"

SuccessMessage ==
    [kind |-> "success", body |-> "Model and features loaded successfully!",
     names |-> {}, cents |-> 0, text |-> ""]

\* The st.error of the except FileNotFoundError branch: one fixed text that
\* names all three files.
NotFoundMessage ==
    [kind |-> "error",
     body |-> "Error: Model files not found. Please ensure ... are in the same directory as this app.",
     names |-> { ModelFile, FeaturesFile, MeansFile }, cents |-> 0, text |-> ""]

----------------------------------------------------------------------------
(* The input form: lines 48-136. *)

\* float(x) keeps the numeric value of a number (all values here are far below
\* 2^53), and numbers are modelled by their numeric value.
Float(x) == x

\* feature_means.get(f, 0)
Get(means, f, dflt) == IF f \in DOMAIN means THEN means[f] ELSE dflt

DefaultZero(means, f) == 0

\* value=float(feature_means.get(f, 0))
Default(means, f) == Float(Get(means, f, 0))

WithinBoundsNoMax(f, v) == v >= MinValue

\* number_input accepts v for input f: min_value=0.0 for all of them,
\* max_value=100.0 for the two percentage inputs.  A default outside the
\* range makes number_input raise; a typed value outside it is not committed.
WithinBounds(f, v) ==
    /\ v >= MinValue
    /\ (f \in PercentFeatures => v <= MaxPercent)

RECURSIVE RenderWidgets(_, _, _, _)
\* The eleven number_input calls from the i-th on.  Each returns the session's
\* value of the widget when there is one and the default otherwise; the first
\* default outside its range raises and ends the pass.
RenderWidgets(i, means, state, acc) ==
    IF i > Len(DisplayedFeatures) THEN [ok |-> TRUE, inputs |-> acc]
    ELSE LET f == DisplayedFeatures[i]
             d == Default(means, f)
         IN  IF ~WithinBounds(f, d) THEN [ok |-> FALSE, inputs |-> acc]
             ELSE RenderWidgets(i + 1, means, state,
                     acc @@ (f :> (IF f \in DOMAIN state THEN state[f] ELSE d)))

----------------------------------------------------------------------------
(* The vector: lines 138-147. *)

InitDictZero(features, means) == [f \in Range(features) |-> 0]

\* {feature: feature_means[feature] for feature in model_features}; the
\* caller has checked that no KeyError is raised.
InitDict(features, means) == [f \in Range(features) |-> means[f]]

\* The comprehension raises KeyError at a feature the means mapping lacks.
RaisesKeyError(features, means) == \E i \in 1..Len(features) : features[i] \notin DOMAIN means

MergeNothing(d, inputs) == d

\* for feature, value in user_inputs.items():
\*     if feature in input_df_dict: input_df_dict[feature] = value
Merge(d, inputs) ==
    [f \in DOMAIN d |-> IF f \in DOMAIN inputs THEN inputs[f] ELSE d[f]]

DataFrameOverInputs(d, columns) ==
    LET cols == SelectSeq(DisplayedFeatures, LAMBDA f : f \in DOMAIN d)
    IN  [i \in 1..Len(cols) |-> [col |-> cols[i], val |-> d[cols[i]]]]

\* pd.DataFrame([d], columns=columns): one row, the columns named and ordered
\* by `columns`, each holding d's value for its name.
DataFrame(d, columns) ==
    [i \in 1..Len(columns) |-> [col |-> columns[i], val |-> d[columns[i]]]]

Columns(df) == [i \in 1..Len(df) |-> df[i].col]
Row(df) == [i \in 1..Len(df) |-> df[i].val]

----------------------------------------------------------------------------
(* Prediction: lines 151-157. *)

RECURSIVE Sum(_)
Sum(s) == IF s = << >> THEN 0 ELSE Head(s) + Sum(Tail(s))

\* model.predict(input_df)[0]
Predict(m, df) ==
    IF m.raises THEN [ok |-> FALSE, value |-> 0, text |-> m.text]
    ELSE [ok |-> TRUE, value |-> m.intercept + m.slope * Sum(Row(df)), text |-> ""]

\* f"{prediction:.2f}" of a float of e eighths, as a number of cents: e * 12.5
\* rounded to the nearest integer, an exact half to the even neighbour.
Format2f(e) ==
    LET twice == e * 25
        low == twice \div 2
    IN  IF twice % 2 = 0 THEN low
        ELSE IF low % 2 = 0 THEN low ELSE low + 1

ResultMessage(cents) ==
    [kind |-> "success", body |-> "Predicted Estimated Revenue (USD): $",
     names |-> {}, cents |-> cents, text |-> ""]

PredictionErrorMessage(e) ==
    [kind |-> "error", body |-> "An error occurred during prediction: ",
     names |-> {}, cents |-> 0, text |-> e]

----------------------------------------------------------------------------
(* The session. *)

\* Where a render pass can end: after the last line, at st.stop(), or at an
\* exception no except clause of the script catches.
Resting == { "done", "stopped", "uncaught" }

Init ==
    /\ fileState = [a \in Range(ArtifactFiles) |-> "ok"]
    /\ diskModel \in Models
    /\ diskFeatures \in FeatureLists
    /\ diskMeans \in MeansMappings
    /\ pc = "load"
    /\ trigger = "start"
    /\ loaded = {}
    /\ model = NoModel
    /\ model_features = << >>
    /\ feature_means = EmptyMap
    /\ user_inputs = EmptyMap
    /\ input_df = << >>
    /\ messages = << >>
    /\ exc = ""
    /\ predictCalls = 0
    /\ widgets = EmptyMap
    /\ loads = 0
    /\ edits = 0
    /\ presses = 0
    /\ diskEvents = 0

\* Lines 15-22: the try block and its except FileNotFoundError clause.
Load ==
    /\ pc = "load"
    /\ LET k == FirstFailure(fileState, 1)
           got == LoadedBefore(k)
       IN  /\ loaded' = got
           /\ model' = IF ModelFile \in got THEN diskModel ELSE NoModel
           /\ model_features' = IF FeaturesFile \in got THEN diskFeatures ELSE << >>
           /\ feature_means' = IF MeansFile \in got THEN diskMeans ELSE EmptyMap
           /\ IF k = 0
              THEN /\ messages' = Append(messages, SuccessMessage)
                   /\ pc' = "form"
                   /\ UNCHANGED << exc, widgets >>
              ELSE IF fileState[ArtifactFiles[k]] = "absent"
              THEN /\ messages' = Append(messages, NotFoundMessage)
                   /\ pc' = "stopped"
                   /\ widgets' = EmptyMap
                   /\ UNCHANGED exc
              ELSE /\ exc' = OtherLoadError
                   /\ pc' = "uncaught"
                   /\ widgets' = EmptyMap
                   /\ UNCHANGED messages
    /\ loads' = loads + 1
    /\ UNCHANGED << disk, trigger, user_inputs, input_df, predictCalls, edits,
                    presses, diskEvents >>

\* Lines 48-136: user_inputs = {} and the eleven number_input calls.
RenderForm ==
    /\ pc = "form"
    /\ LET r == RenderWidgets(1, feature_means, widgets, EmptyMap)
       IN  /\ user_inputs' = r.inputs
           /\ widgets' = r.inputs
           /\ IF r.ok
              THEN pc' = "vector" /\ UNCHANGED exc
              ELSE pc' = "uncaught" /\ exc' = "StreamlitAPIException"
    /\ UNCHANGED << disk, trigger, loaded, globals, input_df, messages,
                    predictCalls, loads, edits, presses, diskEvents >>

\* Lines 138-147: input_df_dict, the overrides, input_df.
BuildVector ==
    /\ pc = "vector"
    /\ IF RaisesKeyError(model_features, feature_means)
       THEN /\ pc' = "uncaught"
            /\ exc' = "KeyError"
            /\ UNCHANGED input_df
       ELSE /\ input_df' = DataFrame(Merge(InitDict(model_features, feature_means),
                                           user_inputs),
                                     model_features)
            /\ pc' = "button"
            /\ UNCHANGED exc
    /\ UNCHANGED << disk, trigger, loaded, globals, user_inputs, messages,
                    predictCalls, widgets, loads, edits, presses, diskEvents >>

\* st.button(...) in this pass: True only in the pass a press started.
ButtonValue == trigger = "button"

\* Lines 151-153: the button, and the call of model.predict when it is True.
Button ==
    /\ pc = "button"
    /\ IF ButtonValue
       THEN pc' = "predicting" /\ predictCalls' = predictCalls + 1
       ELSE pc' = "done" /\ UNCHANGED predictCalls
    /\ UNCHANGED << disk, trigger, loaded, globals, user_inputs, input_df,
                    messages, exc, widgets, loads, edits, presses, diskEvents >>

\* Lines 153-157: the call returns or raises; st.success or st.error.
PredictReturn ==
    /\ pc = "predicting"
    /\ LET out == Predict(model, input_df)
       IN  messages' = Append(messages,
                              IF out.ok THEN ResultMessage(Format2f(out.value))
                              ELSE PredictionErrorMessage(out.text))
    /\ pc' = "done"
    /\ UNCHANGED << disk, trigger, loaded, globals, user_inputs, input_df, exc,
                    predictCalls, widgets, loads, edits, presses, diskEvents >>

\* The script starts again from its first line, in a fresh namespace.
Rerun(why) ==
    /\ pc' = "load"
    /\ trigger' = why
    /\ loaded' = {}
    /\ model' = NoModel
    /\ model_features' = << >>
    /\ feature_means' = EmptyMap
    /\ user_inputs' = EmptyMap
    /\ input_df' = << >>
    /\ messages' = << >>
    /\ exc' = ""
    /\ predictCalls' = 0

\* The user commits value v in the rendered input f.
EditWidget(f, v) ==
    /\ pc \in Resting
    /\ edits < MaxEdits
    /\ f \in DOMAIN widgets
    /\ WithinBounds(f, v)
    /\ v # widgets[f]
    /\ widgets' = [widgets EXCEPT ![f] = v]
    /\ edits' = edits + 1
    /\ Rerun("widget")
    /\ UNCHANGED << disk, loads, presses, diskEvents >>

\* The user presses "Predict Estimated Revenue"; it is rendered only by a pass
\* that reached its last line.
PressButton ==
    /\ pc = "done"
    /\ presses < MaxPresses
    /\ presses' = presses + 1
    /\ Rerun("button")
    /\ UNCHANGED << disk, widgets, loads, edits, diskEvents >>

\* The script reads the disk only in Load, so a file-system event during a
\* pass has the effect of the same event right after it: events are placed
\* before a pass starts loading or after it has ended.
BetweenPasses == pc = "load" \/ pc \in Resting

\* The file system: an artifact file is deleted (or becomes a link to nothing).
RemoveArtifact(a) ==
    /\ BetweenPasses
    /\ diskEvents < MaxDiskEvents
    /\ fileState[a] # "absent"
    /\ fileState' = [fileState EXCEPT ![a] = "absent"]
    /\ diskEvents' = diskEvents + 1
    /\ UNCHANGED << diskModel, diskFeatures, diskMeans, pc, trigger, loaded,
                    globals, user_inputs, input_df, messages, exc, predictCalls,
                    widgets, loads, edits, presses >>

\* The file system: an artifact file is changed so that it no longer loads
\* (emptied, cut short, overwritten, made a directory or unreadable, or a
\* pickle of a class that cannot be imported).
CorruptArtifact(a) ==
    /\ BetweenPasses
    /\ diskEvents < MaxDiskEvents
    /\ fileState[a] = "ok"
    /\ fileState' = [fileState EXCEPT ![a] = "unreadable"]
    /\ diskEvents' = diskEvents + 1
    /\ UNCHANGED << diskModel, diskFeatures, diskMeans, pc, trigger, loaded,
                    globals, user_inputs, input_df, messages, exc, predictCalls,
                    widgets, loads, edits, presses >>

Next ==
    \/ Load
    \/ RenderForm
    \/ BuildVector
    \/ Button
    \/ PredictReturn
    \/ \E f \in EditedFeatures, v \in TypedVals : EditWidget(f, v)
    \/ PressButton
    \/ \E a \in Range(ArtifactFiles) : RemoveArtifact(a)
    \/ \E a \in Range(ArtifactFiles) : CorruptArtifact(a)

Spec == Init /\ [][Next]_vars

----------------------------------------------------------------------------
(* Properties. *)

\* A pass has built input_df (line 147 has run).
VectorBuilt == pc \in { "button", "predicting", "done" }

\* A pass has rendered the whole form (line 136 has run).
FormRendered == DOMAIN user_inputs = DisplayedSet

AllFiles == Range(ArtifactFiles)

\* C1: whenever the vector is built, its column sequence is exactly the model's
\* feature list (same names, each once, same order); a form value whose name
\* is not in that list adds no column, and a pass that has rendered the form
\* ends in an uncaught exception only for a listed feature that has no mean
\* (the KeyError of line 139), never for such a form value.
C1_ColumnsMatchModel ==
    /\ VectorBuilt =>
          /\ Columns(input_df) = diskFeatures
          /\ \A i, j \in 1..Len(input_df) : i # j => input_df[i].col # input_df[j].col
          /\ \A f \in DOMAIN user_inputs \ Range(diskFeatures) :
                 \A i \in 1..Len(input_df) : input_df[i].col # f
    /\ (pc = "uncaught" /\ FormRendered) =>
          /\ exc = "KeyError"
          /\ \E i \in 1..Len(diskFeatures) : diskFeatures[i] \notin DOMAIN diskMeans

\* C1's case: a two-column vector that starts with the hidden feature, built
\* while the form holds an edited value for an input the model does not list.
C1_Witness ==
    /\ VectorBuilt
    /\ Len(input_df) = 2
    /\ input_df[1].col = HiddenFeature
    /\ "Likes" \notin Range(diskFeatures)
    /\ "Likes" \in DOMAIN user_inputs
    /\ user_inputs["Likes"] = 70

\* C2: in every built vector, after any edits and presses, a column that is
\* not one of the 11 displayed features holds that feature's historical mean.
C2_HiddenFeatureKeepsMean ==
    VectorBuilt =>
        \A i \in 1..Len(input_df) :
            input_df[i].col \notin DisplayedSet =>
                input_df[i].val = diskMeans[input_df[i].col]

\* C2's case: after an edit and a press, a vector with the hidden feature.
C2_Witness ==
    /\ VectorBuilt
    /\ edits >= 1
    /\ presses >= 1
    /\ \E i \in 1..Len(input_df) :
           input_df[i].col = HiddenFeature /\ input_df[i].val = 150

\* C3: in every built vector a column that is one of the displayed features
\* holds the form's current value of that input; with no edit so far the row
\* is the means of the model's features, in the model's order.
C3_FormValueOverridesMean ==
    VectorBuilt =>
        /\ \A i \in 1..Len(input_df) :
               input_df[i].col \in DisplayedSet =>
                   /\ input_df[i].col \in DOMAIN widgets
                   /\ input_df[i].val = widgets[input_df[i].col]
        /\ edits = 0 =>
               Row(input_df) = [i \in 1..Len(diskFeatures) |-> diskMeans[diskFeatures[i]]]

\* C3's case: the user has set Views to 70 where its mean is 150, and the
\* vector's Views column holds 70.
C3_Witness ==
    /\ VectorBuilt
    /\ "Views" \in DOMAIN diskMeans
    /\ diskMeans["Views"] = 150
    /\ \E i \in 1..Len(input_df) : input_df[i].col = "Views" /\ input_df[i].val = 70

\* C4: a pass whose loading did not bind all three artifacts has halted at
\* st.stop() with an error message that names the file that failed, and has
\* rendered no input, built no vector and called predict not at all.
C4_LoadFailureHaltsWithMessage ==
    (pc # "load" /\ loaded # AllFiles) =>
        /\ pc = "stopped"
        /\ \E i \in 1..Len(messages) :
               /\ messages[i].kind = "error"
               /\ ArtifactFiles[Cardinality(loaded) + 1] \in messages[i].names
        /\ user_inputs = EmptyMap
        /\ input_df = << >>
        /\ predictCalls = 0

\* C5: a pass started by a button press ends at the script's last line, having
\* called predict once and displayed exactly its result (to two decimals) or
\* exactly its error text, with no uncaught exception and the form rendered
\* for the next press.
C5_PressRunsToResult ==
    (trigger = "button" /\ pc \in Resting) =>
        /\ pc = "done"
        /\ exc = ""
        /\ predictCalls = 1
        /\ FormRendered
        /\ LET out == Predict(diskModel, input_df)
           IN  messages = << SuccessMessage,
                             IF out.ok THEN ResultMessage(Format2f(out.value))
                             ELSE PredictionErrorMessage(out.text) >>

\* C6: a pass that has loaded the artifact triple and rendered the form never
\* ends in an exception that the script does not catch: every error of vector
\* construction or model invocation ends in a displayed message.
C6_NoUncaughtError ==
    (loaded = AllFiles /\ FormRendered) => pc # "uncaught"

\* C7: predict is called only in a pass started by a button press, never in
\* one started otherwise, and exactly once in a pass a press started.
C7_PredictExactlyOncePerPress ==
    /\ predictCalls <= 1
    /\ trigger # "button" => predictCalls = 0
    /\ (trigger = "button" /\ pc \in Resting) => predictCalls = 1

\* The bounds of input f hold for v, written out from the widget arguments.
InputRangeHolds(f, v) ==
    /\ v >= 0
    /\ (f = "Video Thumbnail CTR (%)" \/ f = "Average View Percentage (%)") => v <= 100

\* C8: every value the form holds is at least 0 and, for the two percentage
\* inputs, at most 100; so are the values user_inputs carries and the values
\* of displayed features in every built vector, the one given to predict
\* included.
C8_FormValuesWithinBounds ==
    /\ \A f \in DOMAIN widgets : InputRangeHolds(f, widgets[f])
    /\ \A f \in DOMAIN user_inputs : InputRangeHolds(f, user_inputs[f])
    /\ VectorBuilt =>
           \A i \in 1..Len(input_df) :
               input_df[i].col \in DisplayedSet =>
                   InputRangeHolds(input_df[i].col, input_df[i].val)

\* C8's case: predict is being called with a vector that has the thumbnail
\* CTR column, after the user has edited an input.
C8_Witness ==
    /\ pc = "predicting"
    /\ edits >= 1
    /\ \E i \in 1..Len(input_df) : input_df[i].col = "Video Thumbnail CTR (%)"

\* An artifact triple is valid when the three files are readable and the mean
\* of every displayed feature is a value that feature can take: at least 0,
\* and at most 100 for a percentage.
ValidTriple ==
    /\ \A a \in AllFiles : fileState[a] = "ok"
    /\ \A f \in DOMAIN diskMeans \cap DisplayedSet : InputRangeHolds(f, diskMeans[f])

\* C9: for a valid artifact triple the loading step binds all three artifacts
\* and goes on to the form, and the form step renders exactly the 11 inputs;
\* before any edit each holds the feature's historical mean, or 0 when the
\* means mapping has no entry for it.
C9_ValidTripleRendersDefaults ==
    [][ /\ (pc = "load" /\ pc' # "load" /\ ValidTriple) =>
               (pc' = "form" /\ loaded' = AllFiles /\ SuccessMessage \in Range(messages'))
        /\ (pc = "form" /\ pc' # "form" /\ ValidTriple) =>
               /\ pc' = "vector"
               /\ DOMAIN user_inputs' = DisplayedSet
               /\ Cardinality(DOMAIN user_inputs') = 11
               /\ edits = 0 =>
                      \A f \in DisplayedSet :
                          user_inputs'[f] = IF f \in DOMAIN diskMeans THEN diskMeans[f] ELSE 0
      ]_vars

\* C9's case: the form has been rendered before any edit, with the mean 150
\* in the Views input and 0 in the Likes input, which has no mean.
C9_Witness ==
    /\ pc = "vector"
    /\ edits = 0
    /\ ValidTriple
    /\ "Views" \in DOMAIN diskMeans
    /\ user_inputs["Views"] = 150
    /\ "Likes" \notin DOMAIN diskMeans
    /\ user_inputs["Likes"] = 0
    /\ Cardinality(DOMAIN user_inputs) = 11

\* C10: the artifacts are read from disk at most once in a session, and a pass
\* started by a widget change or a button press never halts at loading.
C10_LoadedOncePerSession ==
    /\ loads <= 1
    /\ trigger # "start" => ~(pc \in { "stopped", "uncaught" } /\ loaded # AllFiles)

====
